---- MODULE Spec2Model ----
(***************************************************************************)
(* Model of src/app.py: the practice-log form ("Ovingslogg").              *)
(*                                                                         *)
(* Text is modelled at token level: a comment body is a sequence of        *)
(* tokens (markers, code fences, whitespace, prose, JSON punctuation,      *)
(* JSON strings and numbers).  json.dumps writes tokens, the regular       *)
(* expression of extract_entries_from_comments scans tokens and json.loads *)
(* parses tokens, so encoding and decoding are two different computations. *)
(***************************************************************************)
EXTENDS Integers, Sequences, FiniteSets, TLC

(***************************************************************************)
(* Program constants and bounds                                            *)
(***************************************************************************)
\* params={"per_page": 100, ...}
per_page == 100
\* @st.cache_data(ttl=30)
ttl == 30

\* seconds that pass in one Tick of the clock
TickStep == 15
\* the clock stops here
MaxTime == 45
\* comments appended to the thread during a behaviour (all users together)
MaxAppends == 2
\* length of the comment lists handed to the codec in SpecCodec
MaxBlobs == 2

(***************************************************************************)
(* Tokens and JSON values                                                  *)
(***************************************************************************)
\* a token of text: kind k, string content s, numeric content n
Tok(k) == [k |-> k, s |-> "", n |-> 0]
StrTok(s, n) == [k |-> "str", s |-> s, n |-> n]
IntTok(n) == [k |-> "int", s |-> "", n |-> n]
WS == Tok("WS")

\* a JSON value as Python holds it.  A string is either literal text
\* (s = the text) or the decimal / ISO-8601 text of the number n
\* (s = "digits", "isotime", "isodate").
JInt(n) == [t |-> "int", n |-> n, s |-> "", l |-> <<>>]
JStr(s) == [t |-> "str", n |-> 0, s |-> s, l |-> <<>>]
JFmt(s, n) == [t |-> "str", n |-> n, s |-> s, l |-> <<>>]
JList(l) == [t |-> "list", n |-> 0, s |-> "", l |-> l]
JObj(o) == [t |-> "obj", n |-> 0, s |-> "", l |-> <<o>>]
\* a missing cell of a table (NaN / NaT)
NaN == [t |-> "nan", n |-> 0, s |-> "", l |-> <<>>]

\* a dict with no keys
EmptyDict == [x \in {} |-> NaN]
DictPut(d, key, val) == [x \in (DOMAIN d) \cup {key} |-> IF x = key THEN val ELSE d[x]]

(***************************************************************************)
(* json.dumps / encode_entry_as_comment                                    *)
(***************************************************************************)
\* the keys of the dict literal of the submit handler, in insertion order
EntryKeys == <<"v", "ts", "date", "member", "minutes", "practiced">>

RECURSIVE JoinItemsReversed(_)
\* mutant of JoinItems: the items written last to first
JoinItemsReversed(l) ==
    IF l = <<>> THEN <<>>
    ELSE IF Len(l) = 1 THEN <<StrTok(l[1].s, l[1].n)>>
    ELSE <<StrTok(l[Len(l)].s, l[Len(l)].n), Tok(","), WS>>
             \o JoinItemsReversed(SubSeq(l, 1, Len(l) - 1))

RECURSIVE JoinItems(_)
\* the items of a list, each a string, separated by ", "
JoinItems(l) ==
    IF l = <<>> THEN <<>>
    ELSE IF Len(l) = 1 THEN <<StrTok(l[1].s, l[1].n)>>
    ELSE <<StrTok(l[1].s, l[1].n), Tok(","), WS>> \o JoinItems(Tail(l))

\* json.dumps of one value
DumpValue(jv) ==
    CASE jv.t = "int" -> <<IntTok(jv.n)>>
      [] jv.t = "str" -> <<StrTok(jv.s, jv.n)>>
      [] jv.t = "list" -> <<Tok("[")>> \o JoinItems(jv.l) \o <<Tok("]")>>
      [] OTHER -> <<Tok("null")>>

RECURSIVE DumpMembers(_, _)
\* "key": value, "key": value, ... for the keys ks of dict d
DumpMembers(d, ks) ==
    IF ks = <<>> THEN <<>>
    ELSE LET k == Head(ks)
             rest == DumpMembers(d, Tail(ks))
             one == <<StrTok(k, 0), Tok(":"), WS>> \o DumpValue(d[k])
         IN IF k \notin DOMAIN d THEN rest
            ELSE IF rest = <<>> THEN one
            ELSE one \o <<Tok(","), WS>> \o rest

\* json.dumps(entry, ensure_ascii=False)
json_dumps(entry) == <<Tok("{")>> \o DumpMembers(entry, EntryKeys) \o <<Tok("}")>>

\* f"{BEGIN}\n```json\n{payload}\n```\n{END}"
encode_entry_as_comment(entry) ==
    <<Tok("BEGIN"), WS, Tok("FENCEJSON"), WS>> \o json_dumps(entry)
        \o <<WS, Tok("FENCE"), WS, Tok("END")>>

(***************************************************************************)
(* json.loads                                                              *)
(***************************************************************************)
RECURSIVE SkipWs(_, _)
\* the first position >= i of t that holds no whitespace (Len(t)+1 if none)
SkipWs(t, i) == IF i <= Len(t) /\ t[i].k = "WS" THEN SkipWs(t, i + 1) ELSE i

KindAt(t, i) == IF i >= 1 /\ i <= Len(t) THEN t[i].k ELSE "EOF"

POk(v, i) == [st |-> "ok", v |-> v, i |-> i]
PErr(e) == [st |-> e, v |-> NaN, i |-> 0]

RECURSIVE ParseValue(_, _), ParseItems(_, _, _), ParseMembers(_, _, _)
\* the JSON value that starts at position i of t.  A "NEST" token stands for
\* a run of opening brackets longer than the interpreter's recursion limit.
ParseValue(t, i) ==
    LET j == SkipWs(t, i)
        k == KindAt(t, j)
    IN CASE k = "str" -> POk(JFmt(t[j].s, t[j].n), j + 1)
         [] k = "int" -> POk(JInt(t[j].n), j + 1)
         [] k = "NEST" -> PErr("RecursionError")
         [] k = "[" ->
              IF KindAt(t, SkipWs(t, j + 1)) = "]"
              THEN POk(JList(<<>>), SkipWs(t, j + 1) + 1)
              ELSE ParseItems(t, j + 1, <<>>)
         [] k = "{" ->
              IF KindAt(t, SkipWs(t, j + 1)) = "}"
              THEN POk(JObj(EmptyDict), SkipWs(t, j + 1) + 1)
              ELSE ParseMembers(t, j + 1, EmptyDict)
         [] OTHER -> PErr("JSONDecodeError")

\* the rest of an array: value ("," value)* "]"
ParseItems(t, i, acc) ==
    LET r == ParseValue(t, i)
        j == SkipWs(t, r.i)
    IN IF r.st # "ok" THEN r
       ELSE IF KindAt(t, j) = "," THEN ParseItems(t, j + 1, Append(acc, r.v))
       ELSE IF KindAt(t, j) = "]" THEN POk(JList(Append(acc, r.v)), j + 1)
       ELSE PErr("JSONDecodeError")

\* the rest of an object: "key" ":" value ("," ...)* "}"; a later key wins
ParseMembers(t, i, acc) ==
    LET j == SkipWs(t, i)
        c == SkipWs(t, j + 1)
        r == ParseValue(t, c + 1)
        d == SkipWs(t, r.i)
    IN IF KindAt(t, j) # "str" \/ KindAt(t, c) # ":" THEN PErr("JSONDecodeError")
       ELSE IF r.st # "ok" THEN r
       ELSE IF KindAt(t, d) = "," THEN ParseMembers(t, d + 1, DictPut(acc, t[j].s, r.v))
       ELSE IF KindAt(t, d) = "}" THEN POk(JObj(DictPut(acc, t[j].s, r.v)), d + 1)
       ELSE PErr("JSONDecodeError")

\* after the value r: nothing but whitespace may follow
ExpectEnd(raw, r) ==
    IF r.st # "ok" THEN r
    ELSE IF SkipWs(raw, r.i) <= Len(raw) THEN PErr("JSONDecodeError")
    ELSE r

\* json.loads(raw): one value, then nothing but whitespace
json_loads(raw) == ExpectEnd(raw, ParseValue(raw, 1))

(***************************************************************************)
(* extract_entries_from_comments                                           *)
(***************************************************************************)
\* \s*```\s*END right after position b
ClosesAt(t, b) ==
    LET c == SkipWs(t, b + 1)
    IN KindAt(t, c) = "FENCE" /\ KindAt(t, SkipWs(t, c + 1)) = "END"

\* position of the "{" that BEGIN\s*```json\s* leads to from position i, or 0
OpenFrom(t, i) ==
    LET f == SkipWs(t, i + 1)
        a == SkipWs(t, f + 1)
    IN IF KindAt(t, i) = "BEGIN" /\ KindAt(t, f) = "FENCEJSON" /\ KindAt(t, a) = "{"
       THEN a ELSE 0

\* the closing braces the lazy group (\{.*?\}) can end at, opened at a
CloseSet(t, a) == {b \in (a + 1)..Len(t) : t[b].k = "}" /\ ClosesAt(t, b)}

Min(S) == CHOOSE x \in S : \A y \in S : x <= y

\* pattern.search(body): the leftmost start that matches, and from it the
\* shortest group; <<>> when nothing matches, else <<raw>>
pattern_search(body) ==
    LET starts == {i \in 1..Len(body) :
                      OpenFrom(body, i) # 0 /\ CloseSet(body, OpenFrom(body, i)) # {}}
    IN IF starts = {} THEN <<>>
       ELSE LET a == OpenFrom(body, Min(starts))
            IN <<SubSeq(body, a, Min(CloseSet(body, a)))>>

\* one turn of the loop over the comments: "skip" (continue), "ok" with the
\* entry appended, or the exception json.loads raised that is not caught
\* lines 108-111: r is what json.loads(raw) did
try_loads(r) ==
    CASE r.st = "ok" -> [st |-> "ok", e |-> r.v.l[1]]
      [] r.st = "JSONDecodeError" -> [st |-> "skip", e |-> EmptyDict]
      [] OTHER -> [st |-> r.st, e |-> EmptyDict]

\* lines 105-107: m is what pattern.search(body) found
on_match(m) == IF m = <<>> THEN [st |-> "skip", e |-> EmptyDict] ELSE try_loads(json_loads(m[1]))

extract_one(c) == on_match(pattern_search(c.body))

RECURSIVE Collect(_, _, _)
\* the entries of turns lo..hi of the loop, in order
Collect(turns, lo, hi) ==
    IF lo > hi THEN <<>>
    ELSE IF lo = hi THEN (IF turns[lo].st = "ok" THEN <<turns[lo].e>> ELSE <<>>)
    ELSE LET mid == (lo + hi) \div 2
         IN Collect(turns, lo, mid) \o Collect(turns, mid + 1, hi)

\* extract_entries_from_comments(comments): st = "ok" and the entries, or the
\* exception that leaves the function at the first comment that raises
\* the outcome of the loop whose turns are given
loop_outcome(turns, raising) ==
    IF raising # {}
    THEN [st |-> turns[Min(raising)].st, entries |-> <<>>]
    ELSE [st |-> "ok", entries |-> Collect(turns, 1, Len(turns))]

Raising(turns) == {i \in 1..Len(turns) : turns[i].st \notin {"ok", "skip"}}
loop_over(turns) == loop_outcome(turns, Raising(turns))

extract_entries_from_comments(comments) ==
    loop_over([i \in 1..Len(comments) |-> extract_one(comments[i])])

(***************************************************************************)
(* load_log_df: the table built from the entries                           *)
(***************************************************************************)
SecondsPerDay == 86400

\* a table: its column names and its rows (each a function on the columns)
DefaultCols == {"ts", "date", "member", "minutes", "practiced"}
NoDf == [has |-> FALSE, cols |-> {}, rows |-> <<>>]
Df(cols, rows) == [has |-> TRUE, cols |-> cols, rows |-> rows]

\* pd.to_datetime(x, errors="coerce"): an ISO text or a number becomes an
\* instant (seconds), anything else NaT
to_datetime(x) ==
    CASE x.t = "str" /\ x.s = "isotime" -> [t |-> "time", n |-> x.n, s |-> "", l |-> <<>>]
      [] x.t = "str" /\ x.s = "isodate" ->
             [t |-> "time", n |-> x.n * SecondsPerDay, s |-> "", l |-> <<>>]
      [] x.t = "int" -> [t |-> "time", n |-> 0, s |-> "", l |-> <<>>]
      [] OTHER -> NaN

\* .dt.date: the calendar day of an instant
dt_date(x) ==
    IF x.t = "time" THEN [t |-> "day", n |-> x.n \div SecondsPerDay, s |-> "", l |-> <<>>]
    ELSE NaN

\* pd.to_numeric(x, errors="coerce"), .fillna(0), .astype(int)
to_numeric_int(x) ==
    CASE x.t = "int" -> x.n
      [] x.t = "str" /\ x.s = "digits" -> x.n
      [] OTHER -> 0

\* pd.DataFrame(entries): the columns are the keys of all the entries, a row
\* holds NaN where its entry has no such key
DataFrame(entries) ==
    LET cols == UNION {DOMAIN entries[i] : i \in 1..Len(entries)}
    IN Df(cols, [i \in 1..Len(entries) |->
                    [c \in cols |-> IF c \in DOMAIN entries[i] THEN entries[i][c] ELSE NaN]])

\* lines 122-126: the three conversions; df["ts"] raises KeyError when no
\* entry has the key
convert_columns(d) ==
    IF ~({"ts", "date", "minutes"} \subseteq d.cols)
    THEN [st |-> "KeyError", df |-> NoDf]
    ELSE [st |-> "ok",
          df |-> Df(d.cols, [i \in 1..Len(d.rows) |->
                    [c \in d.cols |->
                        CASE c = "ts" -> to_datetime(d.rows[i][c])
                          [] c = "date" -> dt_date(to_datetime(d.rows[i][c]))
                          [] c = "minutes" -> JInt(to_numeric_int(d.rows[i][c]))
                          [] OTHER -> d.rows[i][c]]])]

\* the body of load_log_df after list_issue_comments returned comments
table_of(ex) ==
    IF ex.st # "ok" THEN [st |-> ex.st, df |-> NoDf]
    ELSE IF ex.entries = <<>> THEN [st |-> "ok", df |-> Df(DefaultCols, <<>>)]
    ELSE convert_columns(DataFrame(ex.entries))

build_log_df(comments) == table_of(extract_entries_from_comments(comments))

(***************************************************************************)
(* render_member_log                                                       *)
(***************************************************************************)
NoView == [kind |-> "none", rows |-> <<>>, total |-> 0, count |-> 0]

\* df[df["member"] == member_name]: the rows of a member, in table order
rows_of_member(rows, name) ==
    LET Mine(r) == r["member"] = JStr(name)
    IN SelectSeq(rows, Mine)

\* r comes before q when sorted by "ts" descending, NaT last
Before(r, q) == r["ts"].t = "time" /\ (q["ts"].t # "time" \/ r["ts"].n > q["ts"].n)

RECURSIVE InsertRow(_, _)
InsertRow(sorted, r) ==
    IF sorted = <<>> THEN <<r>>
    ELSE IF Before(r, Head(sorted)) THEN <<r>> \o sorted
    ELSE <<Head(sorted)>> \o InsertRow(Tail(sorted), r)

RECURSIVE sort_values(_)
\* df.sort_values("ts", ascending=False); rows with equal ts keep table order
sort_values(rows) ==
    IF rows = <<>> THEN <<>>
    ELSE InsertRow(sort_values(SubSeq(rows, 1, Len(rows) - 1)), rows[Len(rows)])

\* ", ".join(x) if isinstance(x, list) else ""  (the items joined, as a list)
JoinPracticed(x) == IF x.t = "list" THEN [i \in 1..Len(x.l) |-> x.l[i].s] ELSE <<>>
\* str.join raises TypeError on an item that is no string
JoinRaises(x) == x.t = "list" /\ \E i \in 1..Len(x.l) : x.l[i].t # "str"

RECURSIVE SumMinutes(_)
SumMinutes(rows) == IF rows = <<>> THEN 0 ELSE Head(rows)["minutes"].n + SumMinutes(Tail(rows))

\* render_member_log after load_log_df returned d: the exception that leaves
\* it ("none" if none) and what is on the page
\* lines 135-146: mine are the member's rows, sorted
render_rows(d, mine) ==
    IF mine = <<>>
    THEN [exc |-> "none", view |-> [kind |-> "info", rows |-> <<>>, total |-> 0, count |-> 0]]
    ELSE IF "practiced" \notin d.cols THEN [exc |-> "KeyError", view |-> NoView]
    ELSE IF \E i \in 1..Len(mine) : JoinRaises(mine[i]["practiced"])
         THEN [exc |-> "TypeError", view |-> NoView]
    ELSE [exc |-> "none",
          view |-> [kind |-> "table",
                    rows |-> [i \in 1..Len(mine) |->
                                [date |-> mine[i]["date"],
                                 minutes |-> mine[i]["minutes"].n,
                                 practiced |-> JoinPracticed(mine[i]["practiced"])]],
                    total |-> SumMinutes(mine),
                    count |-> Len(mine)]]

render_member_log(d, member_name) ==
    IF "member" \notin d.cols THEN [exc |-> "KeyError", view |-> NoView]
    ELSE render_rows(d, sort_values(rows_of_member(d.rows, member_name)))

(***************************************************************************)
(* State                                                                   *)
(***************************************************************************)
VARIABLES
    thread,           \* the remote comment thread: a sequence of [id, body]
    appends,          \* how many comments were appended since Init
    now,              \* the clock, in seconds
    cache,            \* the st.cache_data entry of load_log_df(issue_number)
    show_log,         \* st.session_state.show_log
    selected_member,  \* st.session_state.selected_member
    pc,               \* where the script run is: idle, post, load, fetch
    entry,            \* submit handler: the entry being posted
    page,             \* list_issue_comments: page
    all_comments,     \* list_issue_comments: all_comments
    df,               \* what load_log_df returned in this run (NoDf: nothing)
    msg,              \* the st.success / st.error message on the page
    exc,              \* the exception that ended the run uncaught ("none")
    view,             \* what render_member_log put on the page
    resp,             \* status of the last response of the remote service
    fetched,          \* what the last list_issue_comments returned
    requests,         \* the page requests of the last list_issue_comments
    hist,             \* history: the reads and the submit of the past
    codec_in,         \* SpecCodec: the comments handed to the codec
    codec_entry,      \* SpecCodec: the entry handed to the codec
    codec_out         \* SpecCodec: what the codec returned

appVars == <<thread, appends, now, cache, show_log, selected_member, pc, entry, page,
             all_comments, df, msg, exc, view, resp, fetched, requests, hist>>
codecVars == <<codec_in, codec_entry, codec_out>>
vars == <<appVars, codecVars>>

(***************************************************************************)
(* Inputs                                                                  *)
(***************************************************************************)
\* MEMBERS (two of the roster), MINUTES (two of the options) and
\* PRACTICE_ITEMS (two of the catalog, in catalog order)
MEMBERS == <<"Martin", "Mats">>
MINUTES == {30, 90}
PRACTICE_ITEMS == <<"Oppvarming", "Norge">>

\* the lists the checkbox loop can build: sub-lists of PRACTICE_ITEMS
Practiced == {<<>>, <<JStr(PRACTICE_ITEMS[1])>>, <<JStr(PRACTICE_ITEMS[2])>>,
              <<JStr(PRACTICE_ITEMS[1]), JStr(PRACTICE_ITEMS[2])>>}
Members == {MEMBERS[i] : i \in 1..Len(MEMBERS)}

\* the dict literal of the submit handler
make_entry(t, member, minutes, practiced) ==
    [v |-> JInt(1),
     ts |-> JFmt("isotime", t),
     date |-> JFmt("isodate", t \div SecondsPerDay),
     member |-> JStr(member),
     minutes |-> JInt(minutes),
     practiced |-> JList(practiced)]
NoEntry == EmptyDict

\* text wrapped the way an entry is
Marked(payload) ==
    <<Tok("BEGIN"), WS, Tok("FENCEJSON"), WS>> \o payload \o <<WS, Tok("FENCE"), WS, Tok("END")>>
Obj(members) == <<Tok("{")>> \o members \o <<Tok("}")>>
Pair(k, valueTokens) == <<StrTok(k, 0), Tok(":"), WS>> \o valueTokens

\* comment bodies other users of the thread write
BlobProse == <<Tok("TEXT")>>
\* a marked record with no ts, date or minutes
BlobPartial == Marked(Obj(Pair("v", <<IntTok(1)>>) \o <<Tok(",")>> \o Pair("member", <<StrTok("Mats", 0)>>)))
\* a marked record nested deeper than the interpreter recurses
BlobNested == Marked(Obj(Pair("practiced", <<Tok("NEST")>>)))

Comment(id, body) == [id |-> id, body |-> body]

(***************************************************************************)
(* The remote service and the cache                                        *)
(***************************************************************************)
\* GET .../comments?per_page=n&page=p on thread th
PageOf(th, p, n) ==
    IF p < 1 \/ (p - 1) * n >= Len(th) THEN <<>>
    ELSE SubSeq(th, (p - 1) * n + 1, IF p * n < Len(th) THEN p * n ELSE Len(th))

\* mutant of raise_for_status: the status is not looked at
raise_never(status) == FALSE
\* r.raise_for_status(): raises on a response that is no success
raise_for_status(status) == status # "ok"

\* list_issue_comments: page = 1, and page += 1
first_page == 1
\* mutant of next_page: every other page
skip_page(p) == p + 2
next_page(p) == p + 1

NoCache == [has |-> FALSE, value |-> NoDf, at |-> 0]
\* mutant of CacheValid: a time-to-live of 3 seconds
CacheValidShort(c, t) == c.has /\ t < c.at + 3
\* mutant of cache_after_append: no clear() after the append
cache_kept_after_append(c) == c
\* mutant of cache_after_failed_append: clear() whether or not the append failed
cache_cleared_after_failed_append(c) == [has |-> FALSE, value |-> NoDf, at |-> 0]
\* @st.cache_data(ttl=30): an entry stored at c.at is served until c.at + ttl
CacheValid(c, t) == c.has /\ t < c.at + ttl
\* load_log_df.clear() after the append succeeded
cache_after_append(c) == NoCache
\* the except branches of the submit handler leave the cache alone
cache_after_failed_append(c) == c

(***************************************************************************)
(* Init                                                                    *)
(***************************************************************************)
NoHist == [res |-> NoDf, at |-> 0, valid |-> FALSE, fresh |-> FALSE, first |-> FALSE,
           young |-> FALSE, appended |-> NoEntry, kind |-> "none",
           len0 |-> 0, preThread |-> <<>>, preCache |-> NoCache, postFailed |-> FALSE]

InitApp(th) ==
    /\ thread = th
    /\ appends = 0
    /\ now = 0
    /\ cache = NoCache
    /\ show_log = FALSE
    /\ selected_member = MEMBERS[1]
    /\ pc = "idle"
    /\ entry = NoEntry
    /\ page = first_page
    /\ all_comments = <<>>
    /\ df = NoDf
    /\ msg = "none"
    /\ exc = "none"
    /\ view = NoView
    /\ resp = "none"
    /\ fetched = <<>>
    /\ requests = <<>>
    /\ hist = NoHist

InitCodecIdle ==
    /\ codec_in = <<>>
    /\ codec_entry = NoEntry
    /\ codec_out = [st |-> "none", entries |-> <<>>]

Init == InitApp(<<>>) /\ InitCodecIdle

(***************************************************************************)
(* The environment                                                         *)
(***************************************************************************)
\* time passes: between two runs, and while a page request is under way
Tick ==
    /\ pc \in {"idle", "fetch"}
    /\ now + TickStep <= MaxTime
    /\ now' = now + TickStep
    /\ UNCHANGED <<thread, appends, cache, show_log, selected_member, pc, entry, page,
                   all_comments, df, msg, exc, view, resp, fetched, requests, hist>>
    /\ UNCHANGED codecVars

\* another user of the thread appends a comment
RemoteAppend(body) ==
    /\ appends < MaxAppends
    /\ thread' = Append(thread, Comment(Len(thread) + 1, body))
    /\ appends' = appends + 1
    /\ UNCHANGED <<now, cache, show_log, selected_member, pc, entry, page,
                   all_comments, df, msg, exc, view, resp, fetched, requests, hist>>
    /\ UNCHANGED codecVars

(***************************************************************************)
(* The script run                                                          *)
(***************************************************************************)
\* a new run starts with an empty page
NewPage ==
    /\ df' = NoDf
    /\ exc' = "none"
    /\ view' = NoView
    /\ msg' = "none"
    /\ resp' = "none"
    /\ fetched' = <<>>
    /\ requests' = <<>>
    /\ hist' = [hist EXCEPT !.postFailed = FALSE, !.preThread = <<>>, !.preCache = NoCache,
                            !.first = FALSE, !.young = FALSE, !.appended = NoEntry,
                            !.kind = "none", !.len0 = 0]

\* lines 180-183 and 209: "Vis logg" pressed with member chosen in the form
ClickShowLog(member) ==
    /\ pc = "idle"
    /\ selected_member' = member
    /\ show_log' = TRUE
    /\ pc' = "load"
    /\ NewPage
    /\ UNCHANGED <<thread, appends, now, cache, entry, page, all_comments>>
    /\ UNCHANGED codecVars

\* lines 177, 186-194: "Logg oving" pressed
ClickSubmit(member, minutes, practiced) ==
    /\ pc = "idle"
    /\ selected_member' = member
    /\ entry' = make_entry(now, member, minutes, practiced)
    /\ pc' = "post"
    /\ NewPage
    /\ UNCHANGED <<thread, appends, now, cache, show_log, page, all_comments>>
    /\ UNCHANGED codecVars

\* where the run goes after the submit handler's except branch (line 209)
AfterHandler == IF show_log THEN "load" ELSE "idle"

\* lines 197-202: the append succeeds
PostOk ==
    /\ pc = "post"
    /\ appends < MaxAppends
    /\ resp' = "ok"
    /\ ~raise_for_status("ok")
    /\ thread' = Append(thread, Comment(Len(thread) + 1, encode_entry_as_comment(entry)))
    /\ appends' = appends + 1
    /\ cache' = cache_after_append(cache)
    /\ show_log' = TRUE
    /\ msg' = "none"
    /\ pc' = "load"
    /\ entry' = NoEntry
    /\ hist' = [hist EXCEPT !.fresh = TRUE, !.valid = FALSE, !.appended = entry,
                            !.young = cache.has /\ now < cache.at + ttl]
    /\ UNCHANGED <<now, selected_member, page, all_comments, df, exc, view, fetched, requests>>
    /\ UNCHANGED codecVars

\* lines 73, 203-204: the append is answered with an error status
PostHttpError ==
    /\ pc = "post"
    /\ resp' = "error"
    /\ raise_for_status("error")
    /\ msg' = "http_error"
    /\ cache' = cache_after_failed_append(cache)
    /\ pc' = AfterHandler
    /\ entry' = NoEntry
    /\ hist' = [hist EXCEPT !.postFailed = TRUE, !.preThread = thread, !.preCache = cache]
    /\ UNCHANGED <<thread, appends, now, show_log, selected_member, page, all_comments,
                   df, exc, view, fetched, requests>>
    /\ UNCHANGED codecVars

\* lines 72, 205-206: no answer within the timeout; the service may or may
\* not have stored the comment
PostNetworkFail(stored) ==
    /\ pc = "post"
    /\ stored => appends < MaxAppends
    /\ resp' = "timeout"
    /\ msg' = "generic_error"
    /\ thread' = IF stored
                 THEN Append(thread, Comment(Len(thread) + 1, encode_entry_as_comment(entry)))
                 ELSE thread
    /\ appends' = IF stored THEN appends + 1 ELSE appends
    /\ cache' = cache_after_failed_append(cache)
    /\ pc' = AfterHandler
    /\ entry' = NoEntry
    /\ UNCHANGED <<now, show_log, selected_member, page, all_comments,
                   df, exc, view, fetched, requests, hist>>
    /\ UNCHANGED codecVars

\* render_member_log with the table d that load_log_df returned
Shown(d, r) ==
    /\ df' = d
    /\ exc' = r.exc
    /\ view' = r.view
    /\ pc' = "idle"

Rendered(d) == Shown(d, render_member_log(d, selected_member))

\* line 132, served from the cache
LoadHit ==
    /\ pc = "load"
    /\ CacheValid(cache, now)
    /\ Rendered(cache.value)
    /\ hist' = [hist EXCEPT !.res = cache.value, !.valid = TRUE, !.kind = "hit",
                            !.first = hist.fresh, !.fresh = FALSE]
    /\ UNCHANGED <<thread, appends, now, cache, show_log, selected_member, entry, page,
                   all_comments, msg, resp, fetched, requests>>
    /\ UNCHANGED codecVars

\* line 132, not in the cache: load_log_df runs, lines 76-77
LoadMiss ==
    /\ pc = "load"
    /\ ~CacheValid(cache, now)
    /\ page' = first_page
    /\ all_comments' = <<>>
    /\ requests' = <<>>
    /\ fetched' = <<>>
    /\ pc' = "fetch"
    /\ resp' = "none"
    /\ hist' = [hist EXCEPT !.kind = "miss", !.first = hist.fresh, !.fresh = FALSE,
                            !.len0 = Len(thread)]
    /\ UNCHANGED <<thread, appends, now, cache, show_log, selected_member, entry,
                   df, msg, exc, view>>
    /\ UNCHANGED codecVars

\* lines 92, 118-126, 133-146: list_issue_comments returns comments
Loaded(comments, b) ==
    /\ fetched' = comments
    /\ all_comments' = <<>>
    /\ page' = first_page
    /\ IF b.st = "ok"
       THEN /\ cache' = [has |-> TRUE, value |-> b.df, at |-> now]
            /\ Rendered(b.df)
            /\ hist' = [hist EXCEPT !.res = b.df, !.at = now, !.valid = TRUE]
       ELSE /\ exc' = b.st
            /\ pc' = "idle"
            /\ UNCHANGED <<cache, df, view, hist>>

Returned(comments) == Loaded(comments, build_log_df(comments))

\* lines 78-91: one page request, answered with status
FetchPage(status) ==
    /\ pc = "fetch"
    /\ resp' = status
    /\ requests' = Append(requests, [page |-> page, per_page |-> per_page])
    /\ LET batch == IF status = "ok" THEN PageOf(thread, page, per_page) ELSE <<>>
       IN IF status = "timeout" \/ raise_for_status(status)
          THEN /\ exc' = IF status = "timeout" THEN "ConnectionError" ELSE "HTTPError"
               /\ pc' = "idle"
               /\ all_comments' = <<>>
               /\ page' = first_page
               /\ UNCHANGED <<cache, df, view, fetched, hist>>
          ELSE IF batch = <<>>
          THEN Returned(all_comments)
          ELSE /\ all_comments' = all_comments \o batch
               /\ page' = next_page(page)
               /\ UNCHANGED <<cache, df, view, exc, pc, fetched, hist>>
    /\ UNCHANGED <<thread, appends, now, show_log, selected_member, entry, msg>>
    /\ UNCHANGED codecVars

Next ==
    \/ Tick
    \/ RemoteAppend(BlobProse)
    \/ RemoteAppend(BlobPartial)
    \/ RemoteAppend(BlobNested)
    \/ \E m \in Members : ClickShowLog(m)
    \/ \E m \in Members : ClickSubmit(m, 30, <<JStr(PRACTICE_ITEMS[1])>>)
    \/ PostOk
    \/ PostHttpError
    \/ \E stored \in BOOLEAN : PostNetworkFail(stored)
    \/ LoadHit
    \/ LoadMiss
    \/ \E status \in {"ok", "error", "timeout"} : FetchPage(status)

\* the form, the remote thread and the cache, from an empty thread
Spec == Init /\ [][Next]_vars

(***************************************************************************)
(* SpecFetch: list_issue_comments on threads of one to three pages         *)
(***************************************************************************)
\* a thread of n comments: prose, and every 50th an entry of MEMBERS[1]
LongThread(n) ==
    [i \in 1..n |->
        Comment(i, IF i % 50 = 0
                   THEN encode_entry_as_comment(make_entry(0, MEMBERS[1], 30, <<>>))
                   ELSE BlobProse)]

FetchLens == {0, 1, per_page - 1, per_page, per_page + 1,
              2 * per_page - 1, 2 * per_page, 2 * per_page + 1}

InitFetch == (\E n \in FetchLens : InitApp(LongThread(n))) /\ InitCodecIdle

NextFetch ==
    \/ RemoteAppend(BlobProse)
    \/ ClickShowLog(MEMBERS[1])
    \/ LoadHit
    \/ LoadMiss
    \/ \E status \in {"ok", "error", "timeout"} : FetchPage(status)

SpecFetch == InitFetch /\ [][NextFetch]_vars

(***************************************************************************)
(* SpecCodec: the codec on lists of comments and on entries                *)
(***************************************************************************)
EntryA == make_entry(0, MEMBERS[1], 30, <<JStr(PRACTICE_ITEMS[1])>>)
EntryB == make_entry(15, MEMBERS[2], 90, <<>>)
\* {"minutes": "abc"}: well-formed JSON, minutes as text
EntryWrong == [minutes |-> JStr("abc")]
\* {"v": 1}
EntryV == [v |-> JInt(1)]

BlobEmpty == <<>>
BlobA == encode_entry_as_comment(EntryA)
BlobB == encode_entry_as_comment(EntryB)
\* prose around an entry
BlobBInProse == <<Tok("TEXT"), WS>> \o BlobB \o <<WS, Tok("TEXT")>>
\* a marked region that is no JSON
BlobBadJson == Marked(Obj(<<Tok("TEXT")>>))
BlobWrong == Marked(Obj(Pair("minutes", <<StrTok("abc", 0)>>)))
\* two marked regions
BlobGoodThenBad == Marked(Obj(Pair("v", <<IntTok(1)>>))) \o <<WS>> \o BlobBadJson
BlobBadThenGood == BlobBadJson \o <<WS>> \o Marked(Obj(Pair("v", <<IntTok(1)>>)))

CodecBlobs == {BlobEmpty, BlobProse, BlobA, BlobB, BlobBInProse, BlobBadJson, BlobWrong,
               BlobGoodThenBad, BlobBadThenGood, BlobNested}

\* every list of at most n of the blobs
RECURSIVE BlobLists(_)
BlobLists(n) ==
    IF n = 0 THEN {<<>>}
    ELSE BlobLists(n - 1) \cup
         {Append(l, b) : l \in {x \in BlobLists(n - 1) : Len(x) = n - 1}, b \in CodecBlobs}

AsComments(blobs) == [i \in 1..Len(blobs) |-> Comment(i, blobs[i])]

\* the entries the form can submit
ValidEntries ==
    {make_entry(t, m, mi, pr) :
        t \in {0, TickStep}, m \in Members, mi \in MINUTES,
        pr \in Practiced \cup {<<JStr(PRACTICE_ITEMS[2]), JStr(PRACTICE_ITEMS[1])>>}}

NotRun == [st |-> "none", entries |-> <<>>]

InitCodec ==
    /\ InitApp(<<>>)
    /\ codec_out = NotRun
    /\ \/ codec_in \in BlobLists(MaxBlobs) /\ codec_entry = NoEntry
       \/ codec_in = <<>> /\ codec_entry \in ValidEntries

\* extract_entries_from_comments on the comments
Decode ==
    /\ codec_out = NotRun
    /\ codec_entry = NoEntry
    /\ codec_out' = extract_entries_from_comments(AsComments(codec_in))
    /\ UNCHANGED <<codec_in, codec_entry>>
    /\ UNCHANGED appVars

\* extract_entries_from_comments on the one comment that encodes the entry
RoundTrip ==
    /\ codec_out = NotRun
    /\ codec_entry # NoEntry
    /\ codec_in' = <<encode_entry_as_comment(codec_entry)>>
    /\ codec_out' = extract_entries_from_comments(AsComments(codec_in'))
    /\ UNCHANGED codec_entry
    /\ UNCHANGED appVars

NextCodec == Decode \/ RoundTrip

SpecCodec == InitCodec /\ [][NextCodec]_vars

(***************************************************************************)
(* Properties                                                              *)
(***************************************************************************)
TransportErrors == {"HTTPError", "ConnectionError"}

\* a is the beginning of b
IsPrefix(a, b) == Len(a) <= Len(b) /\ SubSeq(b, 1, Len(a)) = a

\* the table d has a row for entry e
ContainsEntry(d, e) ==
    \E i \in 1..Len(d.rows) :
        /\ d.rows[i]["member"] = e["member"]
        /\ d.rows[i]["minutes"] = e["minutes"]
        /\ d.rows[i]["practiced"] = e["practiced"]
        /\ d.rows[i]["ts"].t = "time"
        /\ d.rows[i]["ts"].n = e["ts"].n

\* C1: the first load_log_df after an append that succeeded is not served
\* from the cache, however young the entry that clear() removed: it requests
\* the pages again, and the table it returns has a row for the entry that was
\* appended.
C1_FreshReadAfterAppend ==
    hist.first =>
        /\ hist.kind = "miss"
        /\ pc = "idle" => requests # <<>>
        /\ df.has => ContainsEntry(df, hist.appended)

\* C1 witness: the log is on the page after a submit that found a cache entry
\* younger than ttl, and the table has the new entry
C1_Witness ==
    /\ pc = "idle"
    /\ hist.first
    /\ hist.young
    /\ df.has
    /\ view.kind = "table"
    /\ ContainsEntry(df, hist.appended)

\* the table of a failed submit's run is the one the state before the submit
\* gives: the cached table of then, or the table of the thread of then (grown
\* by nothing but what other users appended while the pages were read)
UnchangedLog ==
    \/ /\ hist.kind = "hit"
       /\ hist.preCache.has
       /\ df = hist.preCache.value
    \/ /\ hist.kind = "miss"
       /\ IsPrefix(hist.preThread, fetched)
       /\ IsPrefix(fetched, thread)
       /\ thread = hist.preThread => fetched = hist.preThread
       /\ df = build_log_df(fetched).df

\* C2: when the append is answered with an error status, the run shows the
\* HTTP failure message, the step adds no comment to the thread and leaves the
\* cache as it is, and a log shown in that run is the log of the state before
\* the submit.
C2_FailedAppendLeavesLog ==
    /\ [][(pc = "post" /\ resp' = "error") =>
            /\ msg' = "http_error"
            /\ thread' = thread
            /\ appends' = appends
            /\ cache' = cache]_vars
    /\ [](hist.postFailed => /\ msg = "http_error"
                             /\ df.has => UnchangedLog)

\* C2 witness: the member's log is on the page, under the failure message
C2_Witness ==
    /\ pc = "idle"
    /\ hist.postFailed
    /\ msg = "http_error"
    /\ view.kind = "table"
    /\ hist.preThread = thread

\* C3: a read that follows a read whose cache entry is younger than ttl, with
\* no clear() in between, requests no page and returns the table the earlier
\* read returned.
C3_ReadsWithinTtl ==
    [][(pc = "load" /\ pc' # "load" /\ hist.valid /\ now < hist.at + 30) =>
            /\ pc' = "idle"
            /\ requests' = <<>>
            /\ df' = hist.res]_vars

\* C3 witness: a read served from the cache after another user appended an
\* entry that the thread's table would show
C3_Witness ==
    /\ pc = "idle"
    /\ hist.kind = "hit"
    /\ df.has
    /\ build_log_df(thread).st = "ok"
    /\ Len(build_log_df(thread).df.rows) > Len(df.rows)

\* list_issue_comments has returned in this run
FetchAllReturned == pc = "idle" /\ hist.kind = "miss" /\ exc \notin TransportErrors

\* C4: list_issue_comments requests pages 1, 2, 3, ... with per_page 100,
\* stops at the first page without items, returns comments in thread order,
\* none twice, and returns the whole thread when the thread is the same from
\* the first request to the last.
C4_FetchAllPaginates ==
    /\ \A i \in 1..Len(requests) : requests[i] = [page |-> i, per_page |-> 100]
    /\ FetchAllReturned =>
        /\ requests # <<>>
        /\ Len(fetched) >= Len(requests) - 1
        /\ Len(fetched) <= (Len(requests) - 1) * 100
        /\ \A i \in 1..Len(fetched) : \E j \in 1..Len(thread) : fetched[i] = thread[j]
        /\ \A i \in 1..(Len(fetched) - 1) : fetched[i].id < fetched[i + 1].id
        /\ Len(thread) = hist.len0 =>
              /\ fetched = thread
              /\ (Len(requests) - 2) * 100 < Len(thread) \/ Len(thread) = 0

\* C4 witness: a thread of more than two pages, returned whole
C4_Witness ==
    /\ FetchAllReturned
    /\ Len(requests) = 4
    /\ Len(thread) = hist.len0
    /\ fetched = thread

\* C5: a page request that fails ends list_issue_comments and load_log_df with
\* the transport error: nothing is returned, the comments of the earlier pages
\* are dropped, and the cache is as it was.
C5_FetchFailureDiscards ==
    [][(pc = "fetch" /\ resp' \in {"error", "timeout"}) =>
            /\ pc' = "idle"
            /\ exc' \in TransportErrors
            /\ cache' = cache
            /\ df' = NoDf
            /\ view' = NoView
            /\ fetched' = <<>>
            /\ all_comments' = <<>>]_vars

\* C5 witness: the second page request failed after the first returned comments
C5_Witness ==
    /\ pc = "idle"
    /\ exc = "HTTPError"
    /\ Len(requests) = 2
    /\ Len(thread) > 0
    /\ ~cache.has

\* the blobs of CodecBlobs whose first marked region is a JSON object, each
\* with that object
WellFormed ==
    {<<BlobA, EntryA>>, <<BlobB, EntryB>>, <<BlobBInProse, EntryB>>,
     <<BlobWrong, EntryWrong>>, <<BlobGoodThenBad, EntryV>>}
\* those of them that hold an entry: minutes as text is none
ValidMarked == WellFormed \ {<<BlobWrong, EntryWrong>>}

RECURSIVE Expected(_, _)
\* the entries of the blobs that table has, in the order of the blobs
Expected(blobs, table) ==
    IF blobs = <<>> THEN <<>>
    ELSE (IF \E p \in table : p[1] = Head(blobs)
          THEN <<(CHOOSE p \in table : p[1] = Head(blobs))[2]>>
          ELSE <<>>) \o Expected(Tail(blobs), table)

Decoded == codec_out # NotRun /\ codec_entry = NoEntry

\* C6: extract_entries_from_comments on N blobs of which M hold a marked JSON
\* object returns M entries: the object of each such blob, in the order of the
\* blobs, equal objects of different blobs each kept.
C6_DecodeMultiplicity ==
    Decoded => /\ codec_out.st = "ok"
               /\ codec_out.entries = Expected(codec_in, WellFormed)

\* C7: extract_entries_from_comments raises for no list of strings, and an
\* empty string, a string with no marker, a marked region that is no JSON and
\* a marked record with minutes as text each add nothing to the result.
C7_DecodeNeverRaises ==
    Decoded => /\ codec_out.st = "ok"
               /\ codec_out.entries = Expected(codec_in, ValidMarked)

\* C8: for an entry of the form (v = 1, a member of the roster, minutes of the
\* options, practiced a list of catalog items), decoding the one comment that
\* encodes it returns that entry alone, every field equal and practiced in the
\* same order.
C8_RoundTrip ==
    (codec_out # NotRun /\ codec_entry # NoEntry) =>
        codec_out = [st |-> "ok", entries |-> <<codec_entry>>]

\* C8 witness: an entry with two practiced items, not in catalog order, decoded
C8_Witness ==
    /\ codec_out # NotRun
    /\ codec_entry # NoEntry
    /\ codec_entry["practiced"].l = <<JStr(PRACTICE_ITEMS[2]), JStr(PRACTICE_ITEMS[1])>>
    /\ codec_out.entries = <<codec_entry>>

\* C9: a run in which the remote service failed, on the append or on a page
\* request, ends with an error message on the page and with no exception
\* uncaught.
C9_NoFatalError ==
    (pc = "idle" /\ resp \in {"error", "timeout"}) =>
        /\ exc = "none"
        /\ msg \in {"http_error", "generic_error"}

\* C10: when no page request fails, load_log_df and render_member_log end
\* without an exception, whatever the comments of the thread are.
C10_LoadNeverAborts == exc \in {"none"} \cup TransportErrors

====
